---------------------------- MODULE Spec2Model ----------------------------
(***************************************************************************)
(* Model of Script.py: a batch driver (process_csv) that runs process_row   *)
(* for every spreadsheet row on a thread pool; process_row downloads a     *)
(* song (download_song), trims and exports it (trim_song) and removes the  *)
(* downloaded file.  Strings are sequences of one-character strings, the   *)
(* file system is a function from paths to file contents.                  *)
(***************************************************************************)
EXTENDS Integers, Sequences, FiniteSets, TLC

(***************************************************************************)
(* Bounds of the model.                                                    *)
(***************************************************************************)
\* longest spreadsheet (number of rows) explored
MaxRows == 2
\* largest retries explored with download_song
MaxRetries == 8
\* longest start time string explored with timestamp_to_ms
MaxTsLen == 4
\* largest clip duration, in seconds, explored with the slice of trim_song
MaxSec == 3

(***************************************************************************)
(* Strings.                                                                *)
(***************************************************************************)
Whitespace == {" "}
Digits == {"0", "1", "2", "3", "4", "5", "6", "7", "8", "9"}

RECURSIVE LStrip(_)
LStrip(s) ==
    IF s # <<>> /\ Head(s) \in Whitespace THEN LStrip(Tail(s)) ELSE s

RECURSIVE RStrip(_)
RStrip(s) ==
    IF s # <<>> /\ s[Len(s)] \in Whitespace
    THEN RStrip(SubSeq(s, 1, Len(s) - 1))
    ELSE s

\* str.strip()
Strip(s) == RStrip(LStrip(s))

\* whether p occurs in s at position k
OccursAt(s, p, k) ==
    /\ k + Len(p) - 1 <= Len(s)
    /\ SubSeq(s, k, k + Len(p) - 1) = p

\* str.replace(old, new): every non-overlapping occurrence, left to right
RECURSIVE Replace(_, _, _)
Replace(s, old, new) ==
    IF s = <<>> THEN <<>>
    ELSE IF OccursAt(s, old, 1)
         THEN new \o Replace(SubSeq(s, Len(old) + 1, Len(s)), old, new)
         ELSE <<Head(s)>> \o Replace(Tail(s), old, new)

\* str.split(sep) for a one-character separator: the list of the parts
RECURSIVE Split(_, _)
Split(s, sep) ==
    IF \A k \in 1..Len(s) : s[k] # sep THEN <<s>>
    ELSE LET k == CHOOSE j \in 1..Len(s) :
                      /\ s[j] = sep
                      /\ \A m \in 1..(j - 1) : s[m] # sep
         IN  <<SubSeq(s, 1, k - 1)>> \o Split(SubSeq(s, k + 1, Len(s)), sep)

DigitVal(c) ==
    CASE c = "0" -> 0 [] c = "1" -> 1 [] c = "2" -> 2 [] c = "3" -> 3
      [] c = "4" -> 4 [] c = "5" -> 5 [] c = "6" -> 6 [] c = "7" -> 7
      [] c = "8" -> 8 [] c = "9" -> 9

RECURSIVE DigitsVal(_)
DigitsVal(s) ==
    IF s = <<>> THEN 0
    ELSE 10 * DigitsVal(SubSeq(s, 1, Len(s) - 1)) + DigitVal(s[Len(s)])

\* int(s): surrounding whitespace is ignored, one optional sign, then one
\* or more decimal digits; anything else is a ValueError (ok = FALSE)
IntOf(s) ==
    LET t == Strip(s)
        signed == t # <<>> /\ Head(t) \in {"+", "-"}
        d == IF signed THEN Tail(t) ELSE t
        good == d # <<>> /\ \A k \in 1..Len(d) : d[k] \in Digits
    IN  IF ~good THEN [ok |-> FALSE, val |-> 0]
        ELSE [ok |-> TRUE,
              val |-> IF signed /\ Head(t) = "-"
                      THEN 0 - DigitsVal(d) ELSE DigitsVal(d)]

(***************************************************************************)
(* timestamp_to_ms: [ok |-> FALSE] stands for the None it returns when the *)
(* parse raised.                                                           *)
(***************************************************************************)
\* lines 35-37 without the except clause of line 38: the ValueError of a
\* string that does not parse leaves the function
timestamp_to_ms_NoExcept(ts) ==
    LET parts == Split(Strip(ts), ":")
    IN  IF Len(parts) # 2 THEN [ok |-> FALSE, ms |-> 0, raised |-> TRUE]
        ELSE LET min_ == IntOf(parts[1])
                 sec == IntOf(parts[2])
             IN  IF ~min_.ok \/ ~sec.ok THEN [ok |-> FALSE, ms |-> 0, raised |-> TRUE]
                 ELSE [ok |-> TRUE, ms |-> (min_.val * 60 + sec.val) * 1000,
                       raised |-> FALSE]

\* line 37 with the factor applied to the seconds only
timestamp_to_ms_Precedence(ts) ==
    LET parts == Split(Strip(ts), ":")
    IN  IF Len(parts) # 2 THEN [ok |-> FALSE, ms |-> 0, raised |-> FALSE]
        ELSE LET min_ == IntOf(parts[1])
                 sec == IntOf(parts[2])
             IN  IF ~min_.ok \/ ~sec.ok THEN [ok |-> FALSE, ms |-> 0, raised |-> FALSE]
                 ELSE [ok |-> TRUE, ms |-> min_.val * 60 + sec.val * 1000,
                       raised |-> FALSE]

timestamp_to_ms(ts) ==
    LET parts == Split(Strip(ts), ":")
    IN  IF Len(parts) # 2 THEN [ok |-> FALSE, ms |-> 0, raised |-> FALSE]
        ELSE LET min_ == IntOf(parts[1])
                 sec == IntOf(parts[2])
             IN  IF ~min_.ok \/ ~sec.ok THEN [ok |-> FALSE, ms |-> 0, raised |-> FALSE]
                 ELSE [ok |-> TRUE, ms |-> (min_.val * 60 + sec.val) * 1000,
                       raised |-> FALSE]

(***************************************************************************)
(* Configuration (config.json) and the spreadsheet.                        *)
(***************************************************************************)
\* config["csv_columns"]: the header of each of the four fields
csv_columns ==
    [name |-> "Vorname", surname |-> "Nachname", song |-> "Song",
     start_time |-> "Start"]

\* config.get("audio_format", "mp3")
audio_format == <<"m", "p", "3">>

\* output_dir
output_dir == <<"o">>

\* a field value as csv.DictReader yields it: a string, or None (restval)
\* for a row that is shorter than the header
Str(s) == [none |-> FALSE, s |-> s]
None == [none |-> TRUE, s |-> <<>>]

\* the rows a spreadsheet of the model is made of
RowA ==
    [Vorname |-> Str(<<"a">>), Nachname |-> Str(<<"b">>),
     Song |-> Str(<<"s">>), Start |-> Str(<<"0", ":", "0", "5">>)]
\* the same person as RowA once the fields are stripped, another song
RowA2 ==
    [Vorname |-> Str(<<" ", "a">>), Nachname |-> Str(<<"b", " ">>),
     Song |-> Str(<<"t">>), Start |-> Str(<<"1", ":", "3", "0">>)]
\* a song of whitespace only
RowBlank ==
    [Vorname |-> Str(<<"c">>), Nachname |-> Str(<<"b">>),
     Song |-> Str(<<" ">>), Start |-> Str(<<"0", ":", "0", "5">>)]
\* a row shorter than the header: the last field is None
RowShort ==
    [Vorname |-> Str(<<"c">>), Nachname |-> Str(<<"b">>),
     Song |-> Str(<<"s">>), Start |-> None]
\* a start time that is no MM:SS
RowBadTs ==
    [Vorname |-> Str(<<"c">>), Nachname |-> Str(<<"d">>),
     Song |-> Str(<<"s">>), Start |-> Str(<<"x">>)]

RowKinds == {RowA, RowA2, RowBlank, RowShort, RowBadTs}

\* RowA with one field missing (None), empty or blank, RowA itself, and the
\* row that ends after an empty song
FieldRows ==
    { [RowA EXCEPT ![k] = v] :
         k \in {"Vorname", "Nachname", "Song", "Start"},
         v \in {None, Str(<<>>), Str(<<" ">>)} }
    \cup { RowA, [RowA EXCEPT !.Song = Str(<<>>), !.Start = None] }

\* the spreadsheets: every sequence of at most MaxRows rows
Sheets == UNION {[1..n -> RowKinds] : n \in 0..MaxRows}

\* config.get("max_download_retries", 3): the values explored with
\* process_row
RetryChoices == {0, 2}

\* config.get("parallel_workers", 4): the pool sizes explored
WorkerChoices == {1, 2}

\* row.get(key, "")
Get(row, key) == IF key \in DOMAIN row THEN row[key] ELSE Str(<<>>)

(***************************************************************************)
(* Paths (process_row, lines 123-126 and 141).                             *)
(***************************************************************************)
\* os.path.join(a, b)
Join(a, b) == IF b # <<>> /\ Head(b) = "/" THEN b ELSE a \o <<"/">> \o b

ExtPlaceholder == <<"%", "(", "e", "x", "t", ")", "s">>

filename_base(lastName, firstName) == lastName \o <<",", " ">> \o firstName

final_path(lastName, firstName) ==
    Join(output_dir, filename_base(lastName, firstName) \o <<".">> \o audio_format)

temp_path(lastName, firstName) ==
    Join(output_dir,
         filename_base(lastName, firstName)
            \o <<"_", "f", "u", "l", "l", ".">> \o ExtPlaceholder)

downloaded_file(lastName, firstName) ==
    Replace(temp_path(lastName, firstName), ExtPlaceholder, audio_format)

\* the four fields of a row as process_row reads them (lines 114-117);
\* raised: a field is None and .strip() raises AttributeError
Fields(row) ==
    LET f == Get(row, csv_columns.name)
        l == Get(row, csv_columns.surname)
        s == Get(row, csv_columns.song)
        t == Get(row, csv_columns.start_time)
    IN  IF f.none \/ l.none \/ s.none \/ t.none
        THEN [raised |-> TRUE, firstName |-> <<>>, lastName |-> <<>>,
              song |-> <<>>, startTime |-> <<>>]
        ELSE [raised |-> FALSE, firstName |-> Strip(f.s), lastName |-> Strip(l.s),
              song |-> Strip(s.s), startTime |-> Strip(t.s)]

\* line 119: the row is incomplete
Incomplete(fl) ==
    fl.firstName = <<>> \/ fl.lastName = <<>> \/ fl.song = <<>> \/ fl.startTime = <<>>

\* the paths of each kind of row, computed once
FinalOf == [r \in RowKinds \cup FieldRows |->
              LET fl == Fields(r) IN final_path(fl.lastName, fl.firstName)]
TempOf == [r \in RowKinds \cup FieldRows |->
              LET fl == Fields(r) IN downloaded_file(fl.lastName, fl.firstName)]
FieldsOf == [r \in RowKinds \cup FieldRows |-> Fields(r)]
StartOf == [r \in RowKinds \cup FieldRows |-> timestamp_to_ms(Fields(r).startTime)]

\* the files process_row can reach: those of the complete rows
AllPaths ==
    LET complete == {r \in RowKinds : ~FieldsOf[r].raised /\ ~Incomplete(FieldsOf[r])}
    IN  {FinalOf[r] : r \in complete} \cup {TempOf[r] : r \in complete}

(***************************************************************************)
(* Files: <<kind, owner>>.  "absent": no file; "full": the track task      *)
(* owner downloaded; "clip": the clip task owner exported (owner 0: a clip *)
(* of an earlier run); "partial": a file task owner opened for writing and *)
(* has not written; "corrupt": bytes of more than one writer.              *)
(***************************************************************************)
Absent == <<"absent", 0>>
OldClip == <<"clip", 0>>
Exists(f) == f[1] # "absent"
Damaged(f) == f[1] \in {"partial", "corrupt"}

VARIABLES
    rows,     \* the spreadsheet read by process_csv (line 159)
    config,   \* overwrite_existing_files, max_download_retries, parallel_workers
    fs,       \* the files of the output directory
    task,     \* one process_row call per row: its position and what it did
    batch,    \* process_csv: its position, the progress bar, the futures seen
    call,     \* one call of download_song on its own: retries, the
              \* invocations made and how each ended, and the result
    parse,    \* one call of timestamp_to_ms on its own: the string and the
              \* result
    slice,    \* the slice of trim_song on its own: the length of the audio,
              \* the start, the duration, and the end and length computed
    names     \* the paths of two rows on their own: the two pairs of
              \* names and the paths process_row builds from them

\* the variables of the functions explored on their own
pure == <<parse, slice, names>>

vars == <<rows, config, fs, task, batch, call, parse, slice, names>>

Rows == 1..Len(rows)

NewTask ==
    [pc |-> "pending", ret |-> "none", attempt |-> 0, invoked |-> FALSE,
     dl |-> "none",
     trim |-> "none", fault |-> FALSE, exported |-> FALSE,
     touched |-> {}, seen |-> Absent, removed |-> FALSE]

NoParse == [ts |-> <<>>, state |-> "idle", ok |-> FALSE, ms |-> 0]
NoSlice == [len |-> 0, start_ms |-> 0, duration_sec |-> 0, state |-> "idle",
            end_ms |-> 0, out |-> 0]
NoNames == [a |-> <<>>, b |-> <<>>, state |-> "idle", final |-> <<>>, temp |-> <<>>]

NoCall == [retries |-> 0, attempt |-> 0, outcomes |-> <<>>, result |-> "idle"]

Init ==
    /\ rows \in Sheets
    /\ config \in [overwrite_existing_files : BOOLEAN,
                   max_download_retries : RetryChoices,
                   parallel_workers : WorkerChoices]
    /\ \E old \in SUBSET ({FinalOf[RowA]} \cap {FinalOf[rows[i]] : i \in Rows}) :
          fs = [p \in AllPaths |-> IF p \in old THEN OldClip ELSE Absent]
    /\ task = [i \in Rows |-> NewTask]
    /\ batch = [pc |-> "waiting", progress |-> 0, collected |-> {}]
    /\ call = NoCall
    /\ parse = NoParse
    /\ slice = NoSlice
    /\ names = NoNames

(***************************************************************************)
(* download_song (lines 42-59).                                            *)
(***************************************************************************)
\* what one run of the yt-dlp command can do: exit 0, exit non-zero
\* (CalledProcessError), or not start at all (OSError: no such program)
DownloadOutcomes == {"ok", "nonzero", "oserror"}

\* One pass of the loop of lines 50-58 after `attempt` invocations, the
\* next invocation ending as o.  dl: "true"/"false" returned, "raised" an
\* exception left the function, "none" the loop goes on (after the sleep).
download_song(attempt, retries, o) ==
    IF attempt >= retries
    THEN [dl |-> "false", attempt |-> attempt, last |-> "none"]
    ELSE CASE o = "ok" ->
                [dl |-> "true", attempt |-> attempt + 1, last |-> o]
           [] o = "nonzero" ->
                [dl |-> IF attempt + 1 < retries THEN "none" ELSE "false",
                 attempt |-> attempt + 1, last |-> o]
           [] o = "oserror" ->
                [dl |-> "raised", attempt |-> attempt + 1, last |-> o]

(***************************************************************************)
(* process_row (lines 113-153), one action per blocking or file step.      *)
(***************************************************************************)
Returned(t, how) == [t EXCEPT !.pc = "done", !.ret = how]
Raised(t, how) == [t EXCEPT !.pc = "raised", !.ret = how]

\* line 128 with the overwrite flag read the wrong way round
SkipExisting_Inverted(exists, overwrite) == exists /\ overwrite

\* line 128
SkipExisting(exists, overwrite) == exists /\ ~overwrite

\* lines 114-132: from the call to the point before download_song
Enter(t, row, files, overwrite) ==
    LET fl == FieldsOf[row]
        final == FinalOf[row]
    IN  IF fl.raised THEN Raised(t, "raised_fields")
        ELSE IF Incomplete(fl) THEN Returned(t, "skipped")
        ELSE IF SkipExisting(Exists(files[final]), overwrite)
             THEN Returned([t EXCEPT !.seen = files[final]], "exists")
             ELSE [t EXCEPT !.pc = "download", !.seen = files[final]]

\* lines 134-141 without the return of line 139: a failed download goes
\* on to trim_song
AfterDownload_IgnoresFailure(t, r) ==
    CASE r.dl = "none" -> [t EXCEPT !.attempt = r.attempt]
      [] r.dl = "raised" -> Raised([t EXCEPT !.attempt = 0], "raised_download")
      [] r.dl = "false" -> [t EXCEPT !.attempt = 0, !.pc = "decode"]
      [] r.dl = "true" -> [t EXCEPT !.attempt = 0, !.pc = "decode"]

\* lines 134-141: what process_row does with download_song's result r
\* (attempt is download_song's own and is gone when it returns)
AfterDownload(t, r) ==
    CASE r.dl = "none" -> [t EXCEPT !.attempt = r.attempt]
      [] r.dl = "raised" -> Raised([t EXCEPT !.attempt = 0], "raised_download")
      [] r.dl = "false" -> Returned([t EXCEPT !.attempt = 0], "download_failed")
      [] r.dl = "true" -> [t EXCEPT !.attempt = 0, !.pc = "decode"]

\* lines 63-65: trim_song returns False for an invalid start time, and
\* lines 146-148: process_row returns
InvalidStart(t) == Returned([t EXCEPT !.trim = "false"], "trim_failed")
\* lines 143-148 without the return of line 148: a failed trim goes on to
\* the removal of the downloaded file
TrimError_GoesOn(t) == [t EXCEPT !.trim = "false", !.pc = "rm_check"]

\* lines 103-105 without the except clause: the error of a step leaves
\* trim_song and process_row
TrimError_Reraises(t) == Raised([t EXCEPT !.trim = "raised"], "raised_trim")

\* lines 103-105: trim_song catches the error of a step and returns False,
\* and lines 146-148: process_row returns
TrimError(t) == Returned([t EXCEPT !.trim = "false"], "trim_failed")

\* line 102 and then line 153 at once, without the removal of lines 150-151
TrimDone_SkipsCleanup(t) == Returned([t EXCEPT !.trim = "true"], "success")

\* line 102: trim_song returns True, process_row goes on to line 150
TrimDone(t) == [t EXCEPT !.trim = "true", !.pc = "rm_check"]

\* the pool runs at most parallel_workers tasks at a time
Running == {i \in Rows : task[i].pc \notin {"pending", "done", "raised"}}

\* a worker takes the oldest queued row and runs process_row up to the
\* download
Start(i) ==
    /\ task[i].pc = "pending"
    /\ \A j \in Rows : j < i => task[j].pc # "pending"
    /\ Cardinality(Running) < config.parallel_workers
    /\ task' = [task EXCEPT
                  ![i] = Enter(@, rows[i], fs, config.overwrite_existing_files)]
    /\ UNCHANGED <<rows, config, fs, batch, call, pure>>

\* one invocation of the download command, or the end of the loop
Download(i) ==
    /\ task[i].pc = "download"
    /\ \E o \in DownloadOutcomes :
          LET r == download_song(task[i].attempt, config.max_download_retries, o)
          IN  /\ task' = [task EXCEPT
                            ![i] = AfterDownload(
                                      [@ EXCEPT
                                         !.invoked = @ \/ r.attempt > task[i].attempt,
                                         !.dl = r.dl,
                                         !.touched = IF r.dl = "true"
                                                     THEN @ \cup {TempOf[rows[i]]}
                                                     ELSE @], r)]
              /\ fs' = IF r.dl = "true"
                       THEN [fs EXCEPT ![TempOf[rows[i]]] = <<"full", i>>]
                       ELSE fs
    /\ UNCHANGED <<rows, config, batch, call, pure>>

\* trim_song, lines 62-67: the start time, then AudioSegment.from_file
Decode(i) ==
    /\ task[i].pc = "decode"
    /\ LET start == StartOf[rows[i]]
           t == [task[i] EXCEPT !.trim = "running"]
       IN  IF ~start.ok
           THEN task' = [task EXCEPT ![i] = InvalidStart([t EXCEPT !.fault = TRUE])]
           ELSE IF ~Exists(fs[TempOf[rows[i]]])
           THEN task' = [task EXCEPT ![i] = TrimError([t EXCEPT !.fault = TRUE])]
           ELSE \E o \in {"ok", "error"} :
                  task' = [task EXCEPT ![i] =
                             IF o = "ok" THEN [t EXCEPT !.pc = "export_open"]
                             ELSE TrimError([t EXCEPT !.fault = TRUE])]
    /\ UNCHANGED <<rows, config, fs, batch, call, pure>>

\* trim_song, lines 68-101: the slice is made and export opens the final
\* path for writing, which empties it
ExportOpen(i) ==
    /\ task[i].pc = "export_open"
    /\ \E o \in {"ok", "error"} :
          IF o = "ok"
          THEN /\ fs' = [fs EXCEPT ![FinalOf[rows[i]]] = <<"partial", i>>]
               /\ task' = [task EXCEPT ![i] =
                             [@ EXCEPT !.pc = "export_write",
                                       !.touched = @ \cup {FinalOf[rows[i]]}]]
          ELSE /\ fs' = fs
               /\ task' = [task EXCEPT ![i] = TrimError([@ EXCEPT !.fault = TRUE])]
    /\ UNCHANGED <<rows, config, batch, call, pure>>

\* trim_song, lines 101-102: export writes the encoded clip and returns.
\* A writer that finds bytes another writer wrote since it opened the
\* file leaves its own clip or a mix of both.
ExportWrite(i) ==
    /\ task[i].pc = "export_write"
    /\ \E o \in {"ok", "error"} :
          IF o = "ok"
          THEN /\ \E c \in IF fs[FinalOf[rows[i]]][1] = "partial"
                           THEN {<<"clip", i>>}
                           ELSE {<<"clip", i>>, <<"corrupt", 0>>} :
                      fs' = [fs EXCEPT ![FinalOf[rows[i]]] = c]
               /\ task' = [task EXCEPT ![i] = TrimDone([@ EXCEPT !.exported = TRUE])]
          ELSE /\ fs' = fs
               /\ task' = [task EXCEPT ![i] = TrimError([@ EXCEPT !.fault = TRUE])]
    /\ UNCHANGED <<rows, config, batch, call, pure>>

\* line 150
RmCheck(i) ==
    /\ task[i].pc = "rm_check"
    /\ task' = [task EXCEPT ![i] =
                  IF Exists(fs[TempOf[rows[i]]])
                  THEN [@ EXCEPT !.pc = "rm"]
                  ELSE Returned(@, "success")]
    /\ UNCHANGED <<rows, config, fs, batch, call, pure>>

\* lines 151-153: os.remove raises when the file is gone by now or cannot
\* be removed
Rm(i) ==
    /\ task[i].pc = "rm"
    /\ \E o \in {"ok", "error"} :
          IF Exists(fs[TempOf[rows[i]]]) /\ o = "ok"
          THEN /\ fs' = [fs EXCEPT ![TempOf[rows[i]]] = Absent]
               /\ task' = [task EXCEPT ![i] =
                             Returned([@ EXCEPT !.touched = @ \cup {TempOf[rows[i]]},
                                                 !.removed = TRUE],
                                      "success")]
          ELSE /\ fs' = fs
               /\ task' = [task EXCEPT ![i] = Raised(@, "raised_remove")]
    /\ UNCHANGED <<rows, config, batch, call, pure>>

(***************************************************************************)
(* process_csv (lines 155-173).                                            *)
(***************************************************************************)
Finished(i) == task[i].pc \in {"done", "raised"}

\* lines 167-172 without the except clause: the task's exception leaves
\* process_csv
Result_Propagates(b, i, raised) ==
    [b EXCEPT !.progress = @ + 1, !.collected = @ \cup {i},
              !.pc = IF raised THEN "raised" ELSE @]

\* lines 167-172 with the update in the try block instead of finally: a
\* task that raised is not counted
Result_NoFinally(b, i, raised) ==
    [b EXCEPT !.progress = IF raised THEN @ ELSE @ + 1, !.collected = @ \cup {i}]

\* lines 167-172 for one future: result() re-raises the task's exception,
\* which is caught and logged; the bar advances either way
Result(b, i, raised) ==
    [b EXCEPT !.progress = @ + 1, !.collected = @ \cup {i}]

\* as_completed hands over a finished future
Collect(i) ==
    /\ batch.pc = "waiting"
    /\ i \notin batch.collected
    /\ Finished(i)
    /\ batch' = Result(batch, i, task[i].pc = "raised")
    /\ UNCHANGED <<rows, config, fs, task, call, pure>>

\* as_completed is exhausted, the pool is shut down, line 173
Close ==
    /\ batch.pc = "waiting"
    /\ batch.collected = Rows
    /\ batch' = [batch EXCEPT !.pc = "returned"]
    /\ UNCHANGED <<rows, config, fs, task, call, pure>>

Next ==
    \/ \E i \in Rows : Start(i)
    \/ \E i \in Rows : Download(i)
    \/ \E i \in Rows : Decode(i)
    \/ \E i \in Rows : ExportOpen(i)
    \/ \E i \in Rows : ExportWrite(i)
    \/ \E i \in Rows : RmCheck(i)
    \/ \E i \in Rows : Rm(i)
    \/ \E i \in Rows : Collect(i)
    \/ Close

Spec == Init /\ [][Next]_vars

\* the threads of the pool and the main thread keep running
FairSpec == Spec /\ WF_vars(Next)

(***************************************************************************)
(* download_song called on its own, for every retries and every sequence   *)
(* of outcomes of the command.                                             *)
(***************************************************************************)
InitDownload ==
    /\ rows = <<>>
    /\ config = [overwrite_existing_files |-> FALSE, max_download_retries |-> 0,
                 parallel_workers |-> 1]
    /\ fs = [p \in AllPaths |-> Absent]
    /\ task = [i \in {} |-> NewTask]
    /\ batch = [pc |-> "returned", progress |-> 0, collected |-> {}]
    /\ \E r \in (0 - 1)..MaxRetries :
          call = [retries |-> r, attempt |-> 0, outcomes |-> <<>>, result |-> "none"]
    /\ parse = NoParse
    /\ slice = NoSlice
    /\ names = NoNames

\* the next pass of the loop of download_song
Attempt ==
    /\ call.result = "none"
    /\ \E o \in DownloadOutcomes :
          LET r == download_song(call.attempt, call.retries, o)
          IN  call' = [call EXCEPT
                         !.attempt = r.attempt,
                         !.outcomes = IF r.attempt > call.attempt
                                      THEN Append(@, o) ELSE @,
                         !.result = r.dl]
    /\ UNCHANGED <<rows, config, fs, task, batch, pure>>

DownloadSpec == InitDownload /\ [][Attempt]_vars

(***************************************************************************)
(* process_csv on a spreadsheet of one row, the row read field by field.   *)
(***************************************************************************)
InitOneRow ==
    /\ \E r \in FieldRows : rows = <<r>>
    /\ config \in [overwrite_existing_files : BOOLEAN,
                   max_download_retries : RetryChoices,
                   parallel_workers : WorkerChoices]
    /\ fs = [p \in AllPaths |-> Absent]
    /\ task = [i \in Rows |-> NewTask]
    /\ batch = [pc |-> "waiting", progress |-> 0, collected |-> {}]
    /\ call = NoCall
    /\ parse = NoParse
    /\ slice = NoSlice
    /\ names = NoNames

OneRowSpec == InitOneRow /\ [][Next]_vars

(***************************************************************************)
(* timestamp_to_ms called on its own, for every string over the            *)
(* characters below.                                                       *)
(***************************************************************************)
TsAlphabet == {"0", "1", "9", ":", "-", " ", "x"}

TsStrings == UNION {[1..n -> TsAlphabet] : n \in 0..MaxTsLen}

\* process_csv and download_song are not running
IdleBatch ==
    /\ rows = <<>>
    /\ config = [overwrite_existing_files |-> FALSE, max_download_retries |-> 0,
                 parallel_workers |-> 1]
    /\ fs = [p \in AllPaths |-> Absent]
    /\ task = [i \in {} |-> NewTask]
    /\ batch = [pc |-> "returned", progress |-> 0, collected |-> {}]
    /\ call = NoCall

InitTimestamp ==
    /\ IdleBatch
    /\ \E ts \in TsStrings :
          parse = [ts |-> ts, state |-> "called", ok |-> FALSE, ms |-> 0]
    /\ slice = NoSlice
    /\ names = NoNames

\* the call returns a number (ok) or None, or raises
ParseTs ==
    /\ parse.state = "called"
    /\ LET r == timestamp_to_ms(parse.ts)
       IN  parse' = [parse EXCEPT
                       !.state = IF r.raised THEN "raised" ELSE "returned",
                       !.ok = r.ok, !.ms = r.ms]
    /\ UNCHANGED <<rows, config, fs, task, batch, call, slice, names>>

TimestampSpec == InitTimestamp /\ [][ParseTs]_vars

(***************************************************************************)
(* The slice of trim_song (lines 68-71) on its own: audio of len           *)
(* milliseconds, a start the timestamp gave, a duration in seconds.        *)
(***************************************************************************)
\* line 68 alone, without the clamp of lines 69-70
end_ms_NoClamp(start_ms, duration_sec, len) == start_ms + duration_sec * 1000

\* lines 68-70
end_ms(start_ms, duration_sec, len) ==
    LET e == start_ms + duration_sec * 1000
    IN  IF e > len THEN len ELSE e

\* line 71, len(audio[start:end]) for start >= 0: AudioSegment.__getitem__
\* limits both offsets to len(audio); an end before the start gives the
\* empty segment
snippet(len, start, end) ==
    LET a == IF start > len THEN len ELSE start
        b == IF end > len THEN len ELSE end
    IN  IF b > a THEN b - a ELSE 0

AudioLengths == {k * 500 : k \in 0..(2 * MaxSec + 2)}

StartOffsets == {k * 1000 : k \in 0..(MaxSec + 2)}

InitSlice ==
    /\ IdleBatch
    /\ parse = NoParse
    /\ \E len \in AudioLengths, start_ms \in StartOffsets, duration_sec \in 0..MaxSec :
          slice = [len |-> len, start_ms |-> start_ms, duration_sec |-> duration_sec,
                   state |-> "decoded", end_ms |-> 0, out |-> 0]
    /\ names = NoNames

Slice ==
    /\ slice.state = "decoded"
    /\ LET e == end_ms(slice.start_ms, slice.duration_sec, slice.len)
       IN  slice' = [slice EXCEPT !.state = "sliced", !.end_ms = e,
                                  !.out = snippet(slice.len, slice.start_ms, e)]
    /\ UNCHANGED <<rows, config, fs, task, batch, call, parse, names>>

SliceSpec == InitSlice /\ [][Slice]_vars

(***************************************************************************)
(* The paths of two rows (lines 123-126 and 141) on their own: a and b are *)
(* the stripped (last name, first name) of each row.                       *)
(***************************************************************************)
NameChoices ==
    { <<"a">>, <<"b">>, <<"a", ",", " ", "b">>, <<"b", ",", " ", "a">>,
      <<"a", "_", "f", "u", "l", "l">> }

InitPaths ==
    /\ IdleBatch
    /\ parse = NoParse
    /\ slice = NoSlice
    /\ \E a \in NameChoices \X NameChoices, b \in NameChoices \X NameChoices :
          names = [a |-> a, b |-> b, state |-> "read", final |-> <<>>, temp |-> <<>>]

BuildPaths ==
    /\ names.state = "read"
    /\ names' = [names EXCEPT
                   !.state = "built",
                   !.final = << final_path(names.a[1], names.a[2]),
                                final_path(names.b[1], names.b[2]) >>,
                   !.temp = << downloaded_file(names.a[1], names.a[2]),
                               downloaded_file(names.b[1], names.b[2]) >>]
    /\ UNCHANGED <<rows, config, fs, task, batch, call, parse, slice>>

PathSpec == InitPaths /\ [][BuildPaths]_vars

(***************************************************************************)
(* Properties.                                                             *)
(***************************************************************************)
Final(i) == FinalOf[rows[i]]
Temp(i) == TempOf[rows[i]]
Max(a, b) == IF a > b THEN a ELSE b

\* C1: when process_row has returned, the row's job is either fully
\* completed (the final file is a complete clip and the downloaded file is
\* removed) or not completed at all (no partial or corrupt file at the
\* final path).  Stated for a spreadsheet of one complete row, where no
\* other row touches the files.
C1_AllOrNothing ==
    Len(rows) = 1 =>
       \A i \in Rows :
          (task[i].pc = "done" /\ task[i].ret # "skipped") =>
             \/ fs[Final(i)][1] = "clip" /\ ~Exists(fs[Temp(i)])
             \/ ~task[i].exported /\ ~Damaged(fs[Final(i)])

\* C2: process_row never raises, whatever the row and whatever the
\* download, decode, export and deletion steps do.
C2_NeverRaises == \A i \in Rows : task[i].pc # "raised"

\* C3: two rows of the same name that both ran to success leave a complete
\* clip of one of them at the final path they share.
C3_SameNameComplete ==
    \A i, j \in Rows :
       (/\ i # j
        /\ Final(i) = Final(j)
        /\ task[i].ret = "success"
        /\ task[j].ret = "success")
          => fs[Final(i)] \in {<<"clip", i>>, <<"clip", j>>}

\* C4: with overwrite_existing_files false and the final file present when
\* process_row is called, process_row returns at once: it never invokes
\* the download command or trim_song, writes and deletes no file, and the
\* final file is as it was unless another row wrote it.
C4_ExistingSkipped ==
    \A i \in Rows :
       (Exists(task[i].seen) /\ ~config.overwrite_existing_files) =>
          /\ task[i].pc = "done" /\ task[i].ret = "exists"
          /\ ~task[i].invoked
          /\ task[i].trim = "none"
          /\ task[i].touched = {}
          /\ \/ fs[Final(i)] = task[i].seen
             \/ \E j \in Rows \ {i} : Final(i) \in task[j].touched

C4_Witness ==
    \E i \in Rows :
       /\ task[i].ret = "exists"
       /\ task[i].seen = OldClip
       /\ fs[Final(i)] = OldClip
       /\ batch.pc = "returned"

\* C5: an exception of one row's task never makes process_csv raise and
\* never stops the other tasks: when process_csv returns, every task has
\* run to its end and every future has been handled.
C5_FaultIsolated ==
    /\ batch.pc # "raised"
    /\ batch.pc = "returned" =>
          /\ \A i \in Rows : Finished(i)
          /\ batch.collected = Rows

C5_Witness ==
    /\ batch.pc = "returned"
    /\ \E i, j \in Rows :
          /\ task[i].pc = "raised"
          /\ task[j].ret = "success"

\* the steps a task has left at most, by its position
Rank(t) ==
    CASE t.pc = "pending" -> 7 + Max(config.max_download_retries, 1)
      [] t.pc = "download" -> 6 + Max(config.max_download_retries, 1) - t.attempt
      [] t.pc = "decode" -> 5
      [] t.pc = "export_open" -> 4
      [] t.pc = "export_write" -> 3
      [] t.pc = "rm_check" -> 2
      [] t.pc = "rm" -> 1
      [] OTHER -> 0

RECURSIVE RankSum(_)
RankSum(n) == IF n = 0 THEN 0 ELSE Rank(task[n]) + RankSum(n - 1)

\* the steps process_csv and its tasks have left at most
StepsLeft ==
    RankSum(Len(rows)) + (Len(rows) - Cardinality(batch.collected))
       + (IF batch.pc = "returned" THEN 0 ELSE 1)

\* C6: process_csv finishes: until it has returned some thread can take a
\* step, and every step lowers the bounded number of steps left, so under
\* FairSpec it returns.  The progress counter counts the futures handled,
\* each once and only when its task has ended, never exceeds the number of
\* rows and equals it when process_csv returns.
C6_ProgressCounts ==
    /\ [](/\ batch.progress = Cardinality(batch.collected)
          /\ \A i \in batch.collected : Finished(i)
          /\ batch.progress <= Len(rows)
          /\ batch.pc = "returned" => batch.progress = Len(rows)
          /\ batch.pc = "returned" \/ ENABLED Next
          /\ StepsLeft >= 0)
    /\ [][/\ batch'.progress \in {batch.progress, batch.progress + 1}
          /\ StepsLeft' < StepsLeft]_vars

C6_Witness ==
    /\ batch.pc = "returned"
    /\ batch.progress = 2
    /\ \E i, j \in Rows :
          /\ task[i].pc = "raised"
          /\ task[j].ret \in {"skipped", "trim_failed"}

\* C7: download_song makes at most retries invocations, stops at the first
\* that succeeds and returns true for it, and returns false exactly when
\* all retries invocations failed (none at all for retries <= 0).
C7_RetryCount ==
    call.result \in {"true", "false", "raised"} =>
       LET n == Len(call.outcomes)
           limit == Max(call.retries, 0)
       IN  /\ n <= limit
           /\ \A k \in 1..(n - 1) : call.outcomes[k] # "ok"
           /\ call.result = "true" <=> (n > 0 /\ call.outcomes[n] = "ok")
           /\ call.result = "false" <=>
                 (n = limit /\ \A k \in 1..n : call.outcomes[k] # "ok")

\* C8: download_song retries after every failure of the invocation, a
\* non-zero exit or an error thrown by the launch alike, returns false
\* when the limit is reached and never lets the error out.
C8_AnyFailureRetried ==
    /\ call.result # "raised"
    /\ (call.result = "none" /\ call.attempt > 0) =>
          call.outcomes[call.attempt] \in {"nonzero", "oserror"}
    /\ call.result = "false" => call.attempt = Max(call.retries, 0)

\* C9: when download_song returned false, process_row returns without
\* calling trim_song and without writing or deleting the final path: a
\* final file that was there stays as it was unless another row wrote it.
C9_NoTrimAfterFailedDownload ==
    \A i \in Rows :
       task[i].dl = "false" =>
          /\ task[i].pc = "done" /\ task[i].ret = "download_failed"
          /\ task[i].trim = "none"
          /\ ~task[i].exported
          /\ Final(i) \notin task[i].touched
          /\ \/ fs[Final(i)] = task[i].seen
             \/ \E j \in Rows \ {i} : Final(i) \in task[j].touched

C9_Witness ==
    \E i \in Rows :
       /\ task[i].dl = "false"
       /\ task[i].invoked
       /\ config.overwrite_existing_files
       /\ task[i].seen = OldClip
       /\ fs[Final(i)] = OldClip

\* C10: trim_song lets no error out: it returns false whenever a step
\* failed (start time, missing input, decode, export) and returns true
\* only when the export completed.
C10_TrimReturnsBoolean ==
    \A i \in Rows :
       /\ task[i].trim # "raised"
       /\ task[i].ret # "raised_trim"
       /\ task[i].fault => task[i].trim = "false"
       /\ task[i].trim = "true" => task[i].exported
       /\ task[i].trim = "false" => task[i].fault

C10_Witness ==
    \E i, j \in Rows :
       /\ task[i].trim = "false"
       /\ Final(i) \in task[i].touched
       /\ task[j].trim = "false"
       /\ ~StartOf[rows[j]].ok

\* a non-empty string of decimal digits
AllDigits(s) == s # <<>> /\ \A k \in 1..Len(s) : s[k] \in Digits

\* the positions of the colons of s
Colons(s) == {k \in 1..Len(s) : s[k] = ":"}

\* s is MM:SS with non-negative integers MM and SS
WellFormedTs(s) ==
    /\ Cardinality(Colons(s)) = 1
    /\ LET k == CHOOSE c \in Colons(s) : TRUE
       IN  /\ AllDigits(SubSeq(s, 1, k - 1))
           /\ AllDigits(SubSeq(s, k + 1, Len(s)))

\* an integer as a part may spell it: blanks around it, a minus sign,
\* then digits
Integral(s) ==
    LET t == Strip(s)
    IN  \/ AllDigits(t)
        \/ t # <<>> /\ Head(t) = "-" /\ AllDigits(Tail(t))

\* s is malformed: it has no or several colons (a wrong separator, a
\* missing part, too many parts), or a part that is no integer
MalformedTs(s) ==
    \/ Cardinality(Colons(s)) # 1
    \/ LET k == CHOOSE c \in Colons(s) : TRUE
       IN  \/ ~Integral(SubSeq(s, 1, k - 1))
           \/ ~Integral(SubSeq(s, k + 1, Len(s)))

\* C12: for a string MM:SS with non-negative integers MM and SS,
\* timestamp_to_ms returns exactly (MM*60+SS)*1000.
C12_ExactMilliseconds ==
    (parse.state # "called" /\ WellFormedTs(parse.ts)) =>
       LET k == CHOOSE c \in Colons(parse.ts) : TRUE
           mm == DigitsVal(SubSeq(parse.ts, 1, k - 1))
           ss == DigitsVal(SubSeq(parse.ts, k + 1, Len(parse.ts)))
       IN  /\ parse.state = "returned"
           /\ parse.ok
           /\ parse.ms = (mm * 60 + ss) * 1000

C12_Witness ==
    /\ parse.state = "returned"
    /\ parse.ts = <<"1", ":", "1", "9">>
    /\ parse.ms = 79000

\* C13: for a malformed string (a part that is no number, a wrong
\* separator, a missing part, too many parts) timestamp_to_ms returns None
\* and does not raise.
C13_MalformedGivesNone ==
    /\ parse.state # "raised"
    /\ (parse.state = "returned" /\ MalformedTs(parse.ts)) => ~parse.ok

C13_Witness ==
    /\ parse.state = "returned"
    /\ ~parse.ok
    /\ parse.ts \in {<<"1", ":", "x">>, <<"1", "-", "0">>, <<"1", ":">>,
                     <<"1", ":", "0", ":">>}

\* C14: timestamp_to_ms never returns a negative number, so trim_song
\* never gets a negative start.
C14_NeverNegative ==
    (parse.state = "returned" /\ parse.ok) => parse.ms >= 0

Min(a, b) == IF a < b THEN a ELSE b

\* C11 as stated: for every source length L, start S and duration D the
\* exported slice is min(D, L-S) long, never negative, never longer than
\* the source, and the end offset is at most L.
C11_SliceLength ==
    slice.state = "sliced" =>
       /\ slice.out = Min(slice.duration_sec * 1000, slice.len - slice.start_ms)
       /\ slice.out >= 0
       /\ slice.out <= slice.len
       /\ slice.end_ms <= slice.len

\* C11 amended: the slice is min(D, L-S) long when S <= L and empty when
\* S > L, that is max(0, min(D, L-S)); it is never negative, never longer
\* than the source, and the end offset is at most L.
C11_SliceLengthClamped ==
    slice.state = "sliced" =>
       /\ slice.out = Max(0, Min(slice.duration_sec * 1000, slice.len - slice.start_ms))
       /\ slice.out >= 0
       /\ slice.out <= slice.len
       /\ slice.end_ms <= slice.len

C11_Witness ==
    /\ slice.state = "sliced"
    /\ slice.start_ms > slice.len
    /\ slice.duration_sec > 0
    /\ slice.out = 0

\* C15: two rows whose (last name, first name) pairs differ get different
\* final paths.
C15_DistinctFinalPaths ==
    (names.state = "built" /\ names.a # names.b) =>
       names.final[1] # names.final[2]

\* C19: for two rows whose (last name, first name) pairs differ, the temp
\* path of one is never the final path of the other.
C19_TempNeverFinalOfOther ==
    (names.state = "built" /\ names.a # names.b) =>
       /\ names.temp[1] # names.final[2]
       /\ names.temp[2] # names.final[1]

\* a field of the row is a string that is empty once stripped
HasEmptyField(row) ==
    \E k \in DOMAIN row : ~row[k].none /\ Strip(row[k].s) = <<>>

\* C16: a row with a field that is empty after stripping makes process_row
\* return as a skip, with no download, no trim and no file touched.
C16_IncompleteSkipped ==
    \A i \in Rows :
       (HasEmptyField(rows[i]) /\ task[i].pc # "pending") =>
          /\ task[i].pc = "done"
          /\ task[i].ret = "skipped"
          /\ ~task[i].invoked
          /\ task[i].trim = "none"
          /\ task[i].touched = {}

\* the rows with four non-empty fields
Complete == {i \in Rows : ~FieldsOf[rows[i]].raised /\ ~Incomplete(FieldsOf[rows[i]])}

\* the complete rows have distinct names, every download and every trim of
\* the batch succeeded, and no removal failed
AllSucceeded ==
    /\ \A i, j \in Complete : i # j => Final(i) # Final(j)
    /\ \A i \in Complete :
          /\ task[i].dl \in {"none", "true"}
          /\ ~task[i].fault
          /\ task[i].ret # "raised_remove"

SameFinal(i) == {j \in Complete \ {i} : Final(j) = Final(i)}

\* C18 as stated: with overwrite_existing_files false, under any
\* interleaving, no final path is exported by two rows, and of two rows of
\* one final path at most one downloads.
C18_ExportedOnce ==
    ~config.overwrite_existing_files =>
       \A i \in Complete : \A j \in SameFinal(i) :
          /\ ~(task[i].exported /\ task[j].exported)
          /\ ~(task[i].invoked /\ task[j].invoked)

\* C20: process_row removes the downloaded file only after trim_song
\* returned true; after a successful download and a false trim_song it
\* returns without removing it, and the file is on disk unless another row
\* of the same temp path removed it.
C20_TempKeptOnTrimFailure ==
    \A i \in Complete :
       /\ task[i].removed => task[i].trim = "true"
       /\ (task[i].dl = "true" /\ task[i].fault /\ Finished(i)) =>
             /\ task[i].ret = "trim_failed"
             /\ ~task[i].removed
             /\ \/ Exists(fs[Temp(i)])
                \/ \E j \in Complete \ {i} : Temp(j) = Temp(i) /\ task[j].removed

C20_Witness ==
    \E i \in Complete :
       /\ ~StartOf[rows[i]].ok
       /\ task[i].dl = "true"
       /\ task[i].ret = "trim_failed"
       /\ fs[Temp(i)] = <<"full", i>>

=============================================================================
